---- MODULE Spec2Model ----
\* Symbolic physical quantities (quantity.py): dimension vectors, the tagged
\* expression tree Quant, and the operators + - * / and == that build and
\* compare expressions.  The state is what a caller holds: two bound
\* expressions x and y, and the last call with its argument and result.
EXTENDS Integers, Sequences, FiniteSets, TLC

VARIABLES x, y, op, arg, res, eq

vars == <<x, y, op, arg, res, eq>>

\* ---------------------------------------------------------------- bounds
\* Largest number of nodes the two bound expressions hold together.
MaxNodes == 4

\* Names the caller gives to variables: the fixtures l, m, t of
\* test_quantity.py and a second length k.
LengthNames == {"l", "k"}

MassNames == {"m"}

TimeNames == {"t"}

\* Rational literals handed to from_const, as (numerator, denominator).
Values == {<<0, 1>>, <<1, 1>>, <<4, 2>>}

\* Dimensions handed to from_const.
ConstDims == {<<0, 0, 0>>, <<1, 0, 0>>}

\* Bare (non-expression) numbers used as operands.
Numbers == {0, 2}

\* ------------------------------------------------------------- fractions
None == <<>>

Abs(n) == IF n < 0 THEN -n ELSE n

RECURSIVE GCD(_, _)
GCD(a, b) == IF b = 0 THEN Abs(a) ELSE GCD(b, a % b)

\* fractions.Fraction(n, d): lowest terms, positive denominator.
Fraction(n, d) ==
    LET g == GCD(Abs(n), Abs(d))
        s == IF d < 0 THEN -1 ELSE 1
    IN  <<(s * n) \div g, (s * d) \div g>>

\* 1 / value for a nonzero Fraction.
Reciprocal(v) == Fraction(v[2], v[1])

IsZero(v) == v # None /\ v[1] = 0

IsOne(v) == v # None /\ v[1] = 1 /\ v[2] = 1

\* ------------------------------------------------------------------- Dim
Dim(length, mass, time) == <<length, mass, time>>

\* Faulty variant of DimEq: the time exponent is not compared.
DimEqNoTime(d, e) == d[1] = e[1] /\ d[2] = e[2]

DimEq(d, e) == d[1] = e[1] /\ d[2] = e[2] /\ d[3] = e[3]

\* Faulty variant of DimNeg: the sign is kept.
DimNegKeepsSign(d) == <<d[1], d[2], d[3]>>

DimNeg(d) == Dim(-d[1], -d[2], -d[3])

DimAdd(d, e) == Dim(d[1] + e[1], d[2] + e[2], d[3] + e[3])

DimSub(d, e) == Dim(d[1] - e[1], d[2] - e[2], d[3] - e[3])

\* ----------------------------------------------------------------- Quant
Quant(name, operands, dim, tag, value) ==
    [name |-> name, operands |-> operands, dim |-> Dim(dim[1], dim[2], dim[3]),
     tag |-> tag, value |-> IF tag = "CST" THEN value ELSE None]

length(name) == Quant(name, <<>>, <<1, 0, 0>>, "VAR", <<0, 1>>)

\* Faulty variant of mass: the dimension of length.
mass_as_length(name) ==
    [name |-> name, operands |-> <<>>, dim |-> <<1, 0, 0>>, tag |-> "VAR",
     value |-> None]

mass(name) == Quant(name, <<>>, <<0, 1, 0>>, "VAR", <<0, 1>>)

time(name) == Quant(name, <<>>, <<0, 0, 1>>, "VAR", <<0, 1>>)

from_const(value, dim) ==
    Quant("__constant__", <<>>, dim, "CST", Fraction(value[1], value[2]))

is_const(q) == q.tag = "CST"

is_var(q) == q.tag = "VAR"

is_sum(q) == q.tag = "ADD"

is_prod(q) == q.tag = "MUL"

is_frac(q) == q.tag = "DIV"

\* A call that raised: no expression is returned, name is the exception.
Raised(exc) ==
    [name |-> exc, operands |-> <<>>, dim |-> <<0, 0, 0>>, tag |-> "ERR",
     value |-> None]

IsRaised(q) == q.tag = "ERR"

\* The value of a name not bound to any result yet.
Unset ==
    [name |-> "", operands |-> <<>>, dim |-> <<0, 0, 0>>, tag |-> "UNSET",
     value |-> None]

Min(a, b) == IF a < b THEN a ELSE b

\* Quant.__eq__ between two expressions.
RECURSIVE QEq(_, _)
QEq(self, other) ==
    IF is_const(self) /\ is_const(other) THEN self.value = other.value
    ELSE IF is_var(self) /\ is_var(other) THEN self.name = other.name
    ELSE IF (is_sum(self) /\ is_sum(other)) \/ (is_prod(self) /\ is_prod(other))
    THEN \A i \in 1..Min(Len(self.operands), Len(other.operands)) :
            QEq(self.operands[i], other.operands[i])
    ELSE IF is_frac(self) /\ is_frac(other)
    THEN /\ QEq(self.operands[1], other.operands[1])
         /\ QEq(self.operands[2], other.operands[2])
    ELSE FALSE

\* ----------------------------------------------------- rewrite / factor
factor(a, b) == <<from_const(<<1, 1>>, <<0, 0, 0>>), a, b>>

rewrite_add(a, b) == Unset

rewrite_mul(a, b) == Unset

\* ------------------------------------------------------- normalisation
\* Python compares the names as strings; these are the names of the model
\* in that order.
SortedNames ==
    <<"__constant__", "__div__", "__mul__", "__sum__", "k", "l", "m", "t">>

NameRank(n) == CHOOSE i \in 1..Len(SortedNames) : SortedNames[i] = n

\* One round of the flatten loop: operands of same-kind nodes spliced in.
RECURSIVE Splice(_, _)
Splice(xs, tag) ==
    IF xs = <<>> THEN <<>>
    ELSE (IF Head(xs).tag = tag THEN Head(xs).operands ELSE <<Head(xs)>>)
         \o Splice(Tail(xs), tag)

RECURSIVE flatten(_, _)
flatten(xs, tag) ==
    IF \E i \in 1..Len(xs) : xs[i].tag = tag
    THEN flatten(Splice(xs, tag), tag)
    ELSE xs

rewrite(tag, a, b) == IF tag = "ADD" THEN rewrite_add(a, b) ELSE rewrite_mul(a, b)

\* The inner loop: the first accepted term a rewrite rule merges t into.
FirstMatch(tag, t, ys) ==
    LET hits == {i \in 1..Len(ys) : rewrite(tag, t, ys[i]) # Unset}
    IN  IF hits = {} THEN 0 ELSE CHOOSE i \in hits : \A j \in hits : i <= j

\* The outer loop over the flattened terms.
RECURSIVE reduce_terms(_, _, _)
reduce_terms(tag, xs, ys) ==
    IF xs = <<>> THEN ys
    ELSE LET t == Head(xs)
             i == FirstMatch(tag, t, ys)
         IN  reduce_terms(tag, Tail(xs),
                 IF i = 0 THEN Append(ys, t)
                 ELSE [ys EXCEPT ![i] = rewrite(tag, t, ys[i])])

\* list.sort(key=name): stable, ascending by name.
RECURSIVE InsertByName(_, _)
InsertByName(t, sorted) ==
    IF sorted = <<>> THEN <<t>>
    ELSE IF NameRank(t.name) < NameRank(Head(sorted).name)
         THEN <<t>> \o sorted
         ELSE <<Head(sorted)>> \o InsertByName(t, Tail(sorted))

RECURSIVE SortByName(_)
SortByName(ts) ==
    IF ts = <<>> THEN <<>>
    ELSE InsertByName(ts[Len(ts)], SortByName(SubSeq(ts, 1, Len(ts) - 1)))

\* Faulty variant of Keep: identity terms are not stripped.
KeepAll(ys, tag) == ys

\* [y for y in ys if keep(y)]
RECURSIVE Keep(_, _)
Keep(ys, tag) ==
    IF ys = <<>> THEN <<>>
    ELSE LET h == Head(ys)
             drop == IF tag = "ADD"
                     THEN is_const(h) /\ IsZero(h.value)
                     ELSE is_const(h) /\ IsOne(h.value)
                          /\ DimEq(h.dim, <<0, 0, 0>>)
         IN  (IF drop THEN <<>> ELSE <<h>>) \o Keep(Tail(ys), tag)

\* The terms an addition is left with after flatten, reduce, strip, sort.
add_terms(self, other) ==
    SortByName(Keep(reduce_terms("ADD", flatten(<<self, other>>, "ADD"), <<>>), "ADD"))

\* Quant.__add__ with an expression operand.
add(self, other) ==
    IF ~DimEq(self.dim, other.dim) THEN Raised("AssertionError")
    ELSE LET terms == add_terms(self, other)
         IN  IF Len(terms) = 0 THEN from_const(<<0, 1>>, self.dim)
             ELSE IF Len(terms) = 1 THEN terms[1]
             ELSE Quant("__sum__", terms, self.dim, "ADD", <<0, 1>>)

\* Faulty variant of add_number: the number becomes a dimensionless constant.
add_number_dimensionless(self, n) == add(self, from_const(<<n, 1>>, <<0, 0, 0>>))

\* Quant.__add__ with a bare number operand.
add_number(self, n) == add(self, from_const(<<n, 1>>, self.dim))

\* Quant.__radd__: n + self.
radd(self, n) == add_number(self, n)

mul_terms(self, other) ==
    SortByName(Keep(reduce_terms("MUL", flatten(<<self, other>>, "MUL"), <<>>), "MUL"))

\* Quant.__mul__ with an expression operand.
mul(self, other) ==
    LET dim == DimAdd(self.dim, other.dim)
        terms == mul_terms(self, other)
    IN  IF Len(terms) = 0 THEN from_const(<<1, 1>>, dim)
        ELSE IF Len(terms) = 1 THEN terms[1]
        ELSE Quant("__mul__", terms, dim, "MUL", <<0, 1>>)

\* Quant.__mul__ / __rmul__ with a bare number operand.
mul_number(self, n) == mul(self, from_const(<<n, 1>>, <<0, 0, 0>>))

\* Quant.__neg__: -1 * self.
neg(self) == mul_number(self, -1)

\* Quant.__sub__ with an expression operand.
sub(self, other) == add(self, neg(other))

\* Quant.__truediv__ with an expression operand.
truediv(self, other) ==
    LET dim == DimSub(self.dim, other.dim)
        f == factor(self, other)
        numer == f[2]
        denom == f[3]
    IN  IF is_const(numer) /\ IsZero(numer.value) THEN from_const(<<0, 1>>, dim)
        ELSE IF is_const(denom) /\ denom.value # None
        THEN IF IsZero(denom.value) THEN Raised("ZeroDivisionError")
             ELSE mul(numer, from_const(Reciprocal(denom.value), DimNeg(other.dim)))
        ELSE Quant("__div__", <<numer, denom>>, dim, "DIV", <<0, 1>>)

\* Quant.__truediv__ with a bare number operand.
truediv_number(self, n) == truediv(self, from_const(<<n, 1>>, <<0, 0, 0>>))

\* ------------------------------------------------------------ the caller
RECURSIVE Nodes(_)
Nodes(q) ==
    IF q.operands = <<>> THEN 1
    ELSE LET RECURSIVE Sum(_)
             Sum(i) == IF i = 0 THEN 0 ELSE Nodes(q.operands[i]) + Sum(i - 1)
         IN  1 + Sum(Len(q.operands))

Fits(a, b) == Nodes(a) + Nodes(b) <= MaxNodes

Init ==
    /\ x = from_const(<<0, 1>>, <<0, 0, 0>>)
    /\ y = from_const(<<1, 1>>, <<0, 0, 0>>)
    /\ op = "init"
    /\ arg = None
    /\ res = Unset
    /\ eq = FALSE

\* A constructor call; the caller binds its result to y.
Made(call, a, q) ==
    /\ Fits(x, q)
    /\ y' = q
    /\ x' = x
    /\ op' = call
    /\ arg' = a
    /\ res' = q
    /\ eq' = FALSE

Length == \E n \in LengthNames : Made("length", <<n>>, length(n))

Mass == \E n \in MassNames : Made("mass", <<n>>, mass(n))

Time == \E n \in TimeNames : Made("time", <<n>>, time(n))

FromConst ==
    \E v \in Values, d \in ConstDims : Made("from_const", <<v, d>>, from_const(v, d))

\* An operator applied to the bound expressions, and its result compared
\* with the left operand (result == x); the operands stay bound.
Applied(call, a, q) ==
    /\ op' = call
    /\ arg' = a
    /\ res' = q
    /\ eq' = IF IsRaised(q) THEN FALSE ELSE QEq(q, x)
    /\ UNCHANGED <<x, y>>

Add == Applied("add", None, add(x, y))

Sub == Applied("sub", None, sub(x, y))

Mul == Applied("mul", None, mul(x, y))

Div == Applied("truediv", None, truediv(x, y))

AddNumber == \E n \in Numbers : Applied("add_number", <<n>>, add_number(x, n))

RaddNumber == \E n \in Numbers : Applied("radd", <<n>>, radd(x, n))

DivNumber == \E n \in Numbers : Applied("truediv_number", <<n>>, truediv_number(x, n))

\* x + constant(0, x.dim)
AddZero == Applied("add_zero", None, add(x, from_const(<<0, 1>>, x.dim)))

\* x * constant(1)
MulOne == Applied("mul_one", None, mul(x, from_const(<<1, 1>>, <<0, 0, 0>>)))

Operators ==
    {"add", "sub", "mul", "truediv", "add_number", "radd", "truediv_number",
     "add_zero", "mul_one"}

IsResult == op \in Operators /\ ~IsRaised(res)

\* x == y
Equals ==
    /\ op' = "eq"
    /\ arg' = None
    /\ res' = Unset
    /\ eq' = QEq(x, y)
    /\ UNCHANGED <<x, y>>

\* x = y: the caller rebinds x to the operand y.
Take ==
    /\ x' = y
    /\ op' = "take"
    /\ arg' = None
    /\ res' = Unset
    /\ eq' = FALSE
    /\ UNCHANGED y

\* x = result: the caller keeps the last result as x.  A result without
\* operands is a leaf, which the constructors provide.
Bind ==
    /\ IsResult /\ res.operands # <<>> /\ Fits(res, y)
    /\ x' = res
    /\ op' = "bind"
    /\ arg' = None
    /\ res' = Unset
    /\ eq' = FALSE
    /\ UNCHANGED y

Next ==
    \/ Length \/ Mass \/ Time \/ FromConst
    \/ Add \/ Sub \/ Mul \/ Div
    \/ AddNumber \/ RaddNumber \/ DivNumber
    \/ AddZero \/ MulOne
    \/ Equals
    \/ Take \/ Bind

Spec == Init /\ [][Next]_vars

\* ================================================================ claims
Dimensionless == <<0, 0, 0>>

\* The terms of an expression read as a sum (resp. product): the operands of
\* a node of that kind, the expression itself otherwise.
TermsOf(q, tag) == IF q.tag = tag THEN q.operands ELSE <<q>>

ZeroConstant(q) == q.tag = "CST" /\ q.value[1] = 0

\* C1: x + y and x - y raise the assertion failure, and give no expression,
\* exactly when x.dim differs from y.dim; with equal dimensions they return
\* an expression.  Both operand orders are checked.
C1_DimensionMismatch ==
    /\ op \in {"add", "sub"} =>
          /\ (x.dim # y.dim) => res = Raised("AssertionError")
          /\ (x.dim = y.dim) => ~IsRaised(res)
    /\ IsRaised(add(y, x)) <=> (x.dim # y.dim)
    /\ IsRaised(sub(y, x)) <=> (x.dim # y.dim)

C1_Witness ==
    /\ op = "sub"
    /\ x.operands # <<>>
    /\ x.dim # y.dim
    /\ res = Raised("AssertionError")

\* C2 as stated: x + n and n + x fail with a dimension mismatch whenever x
\* is not dimensionless, and succeed only when it is.
C2_BareNumberNeedsDimensionless ==
    op \in {"add_number", "radd"} => (IsRaised(res) <=> x.dim # Dimensionless)

\* C2 amended: x + n and n + x coerce n to a constant of x's own dimension,
\* so the addition never fails: the result has x's dimension, carries the
\* constant n with x's dimension among its terms when n is not zero, and
\* equals x when n is zero.
C2_BareNumberTakesDimension ==
    op \in {"add_number", "radd"} =>
        /\ ~IsRaised(res)
        /\ res.dim = x.dim
        /\ arg[1] # 0 =>
              \E i \in 1..Len(TermsOf(res, "ADD")) :
                  LET term == TermsOf(res, "ADD")[i]
                  IN  /\ term.tag = "CST"
                      /\ term.value = <<arg[1], 1>>
                      /\ term.dim = x.dim
        /\ arg[1] = 0 => res = x

C2_Witness ==
    /\ op = "radd"
    /\ arg = <<2>>
    /\ x.dim # Dimensionless
    /\ res.tag = "ADD"

\* C3: x / z raises for every x when z is a zero-valued constant of any
\* dimension, and so does x / 0 with the bare number 0.
C3_DivisionByZeroFails ==
    /\ (op = "truediv" /\ ZeroConstant(y)) => IsRaised(res)
    /\ (op = "truediv_number" /\ arg = <<0>>) => IsRaised(res)

\* Equality as C4 states it: constants by value, variables by name, sums
\* and products by a one-to-one pairing of their children, fractions by
\* numerator and denominator.
RECURSIVE PairedEq(_, _)
PairedEq(a, b) ==
    IF a.tag = "CST" /\ b.tag = "CST" THEN a.value = b.value
    ELSE IF a.tag = "VAR" /\ b.tag = "VAR" THEN a.name = b.name
    ELSE IF a.tag = b.tag /\ a.tag \in {"ADD", "MUL"}
    THEN /\ Len(a.operands) = Len(b.operands)
         /\ \E p \in Permutations(1..Len(a.operands)) :
                \A i \in 1..Len(a.operands) :
                    PairedEq(a.operands[i], b.operands[p[i]])
    ELSE IF a.tag = "DIV" /\ b.tag = "DIV"
    THEN /\ PairedEq(a.operands[1], b.operands[1])
         /\ PairedEq(a.operands[2], b.operands[2])
    ELSE FALSE

BothSumsOrProducts(a, b) == a.tag = b.tag /\ a.tag \in {"ADD", "MUL"}

\* C4: for two sums (or two products) a == b is True exactly when they have
\* the same number of children and the children pair up one to one under
\* recursive equality.  The comparisons made are result == x and x == y.
C4_EqualityIsPairing ==
    /\ (op \in Operators /\ ~IsRaised(res) /\ BothSumsOrProducts(res, x)) =>
          (eq <=> PairedEq(res, x))
    /\ (op = "eq" /\ BothSumsOrProducts(x, y)) => (eq <=> PairedEq(x, y))

\* C5: (x + y) == (y + x) for x, y of equal dimension, and
\* (x * y) == (y * x) for all x, y.
C5_Commutativity ==
    /\ (op = "add" /\ ~IsRaised(res)) => QEq(res, add(y, x))
    /\ op = "mul" => QEq(res, mul(y, x))

\* C6: x + constant(0, x.dim) == x and x * constant(1) == x for x of every
\* kind; the result has x's dimension, kind and operands, and the identity
\* constant is not among the terms of the result.
C6_IdentityLaws ==
    /\ op = "add_zero" =>
          /\ ~IsRaised(res)
          /\ eq
          /\ res.dim = x.dim
          /\ res.tag = x.tag
          /\ res.operands = x.operands
          /\ res.tag = "ADD" =>
                \A i \in 1..Len(res.operands) : ~ZeroConstant(res.operands[i])
    /\ op = "mul_one" =>
          /\ ~IsRaised(res)
          /\ eq
          /\ res.dim = x.dim
          /\ res.tag = x.tag
          /\ res.operands = x.operands
          /\ res.tag = "MUL" =>
                \A i \in 1..Len(res.operands) :
                    ~(/\ res.operands[i].tag = "CST"
                      /\ res.operands[i].value = <<1, 1>>
                      /\ res.operands[i].dim = Dimensionless)

C6_Witness ==
    /\ op = "add_zero"
    /\ x.tag = "ADD"
    /\ eq
    /\ res = x

\* C7: whenever x * y returns r, r.dim is x.dim + y.dim componentwise, and
\* whenever x / y returns r, r.dim is x.dim - y.dim componentwise, on every
\* return path.  Both operand orders are checked.
ProductDim(r, a, b) ==
    IsRaised(r) \/ \A i \in 1..3 : r.dim[i] = a.dim[i] + b.dim[i]

QuotientDim(r, a, b) ==
    IsRaised(r) \/ \A i \in 1..3 : r.dim[i] = a.dim[i] - b.dim[i]

C7_DimensionPropagation ==
    /\ op = "mul" => ProductDim(res, x, y)
    /\ op = "truediv" => QuotientDim(res, x, y)
    /\ ProductDim(mul(y, x), y, x)
    /\ QuotientDim(truediv(y, x), y, x)

\* The reciprocal path: a nonzero constant denominator that has a dimension.
C7_Witness ==
    /\ op = "truediv"
    /\ y.tag = "CST"
    /\ y.value[1] # 0
    /\ y.dim # Dimensionless
    /\ x.tag = "MUL"
    /\ res.tag = "MUL"

\* C8: no Sum and no Product node of an expression has more than one
\* Constant among its direct children.
RECURSIVE OneConstantPerNode(_)
OneConstantPerNode(q) ==
    /\ q.tag \in {"ADD", "MUL"} =>
          Cardinality({i \in 1..Len(q.operands) : q.operands[i].tag = "CST"}) <= 1
    /\ \A i \in 1..Len(q.operands) : OneConstantPerNode(q.operands[i])

C8_ConstantsFolded ==
    /\ OneConstantPerNode(x)
    /\ OneConstantPerNode(y)
    /\ op \in Operators => OneConstantPerNode(res)

\* C9: for variables v, w the quotient (v * w) / w is an expression equal
\* to v and not a Fraction node (and likewise (v * w) / v for w).
C9_DivisionCancels ==
    (/\ op = "truediv"
     /\ x.tag = "MUL"
     /\ Len(x.operands) = 2
     /\ x.operands[1].tag = "VAR"
     /\ x.operands[2].tag = "VAR"
     /\ x.operands[1].name # x.operands[2].name
     /\ y.tag = "VAR") =>
        /\ y = x.operands[2] => (res.tag # "DIV" /\ QEq(res, x.operands[1]))
        /\ y = x.operands[1] => (res.tag # "DIV" /\ QEq(res, x.operands[2]))

\* C10: length(n), mass(n), time(n) return a variable named n of dimension
\* (1,0,0), (0,1,0), (0,0,1), without operands, with value None and not
\* constant; from_const(r) has value r and no operands, and all constants
\* share one name.
ValueIs(q, r) == q.value # None /\ q.value[1] * r[2] = r[1] * q.value[2]

IsVariable(q, n, d) ==
    /\ q.name = n
    /\ q.dim = d
    /\ q.operands = <<>>
    /\ q.value = None
    /\ ~is_const(q)

C10_LeafConstruction ==
    /\ op = "length" => IsVariable(res, arg[1], <<1, 0, 0>>)
    /\ op = "mass" => IsVariable(res, arg[1], <<0, 1, 0>>)
    /\ op = "time" => IsVariable(res, arg[1], <<0, 0, 1>>)
    /\ op = "from_const" =>
          /\ ValueIs(res, arg[1])
          /\ res.dim = arg[2]
          /\ res.operands = <<>>
          /\ is_const(res)
    /\ (is_const(x) /\ is_const(y)) => x.name = y.name

C10_Witness ==
    /\ op = "from_const"
    /\ arg = <<<<4, 2>>, <<1, 0, 0>>>>
    /\ res.value = <<2, 1>>
    /\ is_var(x)
    /\ x.dim = <<0, 0, 1>>

====
